---- MODULE Spec2Model ----
(***************************************************************************)
(* Client-side session and market-data synchronisation of the trading     *)
(* terminal (ws.js, ui.js, market.js, chart.js, constants.js).            *)
(*                                                                         *)
(* One action per event handler: the WebSocket callbacks registered by    *)
(* connectWS (onopen, onclose, onerror, onmessage and its switch cases)   *)
(* and the exported UI operations (connectWS, createLobby, joinLobby,     *)
(* setReady, startGame, the BUY/SELL buttons wired to handleOrder).       *)
(* JavaScript is single threaded: each handler runs to completion, so     *)
(* each handler is one atomic step.                                       *)
(***************************************************************************)
EXTENDS Integers, Sequences, FiniteSets, TLC

(***************************************************************************)
(* Bounds of the exploration and input domains.                           *)
(***************************************************************************)
MaxSockets == 1      \* WebSocket objects created by connectWS
MaxSessions == 2     \* WebSocket objects created where reconnection is explored
MaxLog == 1          \* log() calls of the repeatable handlers explored in one behaviour
MaxTicks == 22       \* TICK frames handled in one behaviour
MaxChanges == 1      \* TICK frames whose price map differs from the one before
MaxChartTicks == 301 \* TICK frames handled where the chart buffers are filled
MaxChartChoices == 2 \* leading TICK frames chosen freely where the chart buffers are filled
MaxTrades == 7       \* trades in a PORTFOLIO snapshot
MaxRows == 4         \* rows in a LEADERBOARD snapshot
MaxSnapshots == 2    \* PORTFOLIO and LEADERBOARD frames handled in one behaviour
MaxFlashTicks == 3     \* TICK frames handled in one behaviour where the flashes are followed
MaxStarts == 2         \* clicks on Start where the ticker is explored
MaxAlerts == 11        \* addTickerHeadline calls handled in one behaviour
MaxLogCalls == 52      \* direct log() calls handled in one behaviour
MaxLogChoices == 2     \* leading log() calls whose text is chosen freely
MaxDispatchTicks == 2  \* TICK frames handled in one behaviour of the dispatch specification

Null == "null"
UserIds == {"U1", "U2"}
LobbyIds == {"L1"}
Statuses == {"LOBBY", "RUNNING", "ENDED"}
Names == {"alice"}
Sides == {"BUY", "SELL"}
\* text typed in a quantity box: <<>> is text parseInt cannot read, <<n>> the text of n
QtyInputs == {<<>>, <<0>>, <<-5>>, <<10>>}
\* text typed in the join code box
CodeInputs == {"", "l1"}

(***************************************************************************)
(* constants.js                                                            *)
(***************************************************************************)
ASSETS == <<"OIL", "GOLD">>
Assets == {ASSETS[i] : i \in 1..Len(ASSETS)}
DEFAULTS == [startingCapital |-> 10000, tickSeconds |-> 2, durationSec |-> 15 * 60]
MAX_POINTS == 300
SPARK_POINTS == 20
LOG_KEEP == 50
TRADES_SHOWN == 5
TOP_RANKS == 3
INITIAL_HEADLINES == 20
MAX_HEADLINES == 30
SHOWN_HEADLINES == 5

Rosters == {<<[name |-> "alice", userId |-> "U1", ready |-> TRUE]>>}

VARIABLES
  socks,            \* the WebSocket objects created so far: readyState and the url's userId
  ws,               \* module variable ws: 0 is null, else an index into socks
  userId, lobbyId, isHost,
  hidden,           \* classList.contains("hidden") of setupScreen, lobbyCard, gameArea
  wsStatus,         \* #wsStatus text
  log,              \* children of #log, newest first
  userIdBox, inviteBox, lobbyIdTxt, lobbyStatus, hostIdTxt, ruleTxt, playersRows,
  btnStartDisabled, \* #btnStart.disabled
  timeLeft,         \* #timeLeft text
  orderRows,        \* order entry rows built by initMarket: <<>> until built
  marketRows,       \* market data rows built by initMarketData: <<>> until built
  previousPrices,   \* market.js previousPrices: a price for the assets seen so far
  priceHistory,     \* market.js priceHistory: sparkline points per asset
  HISTORY, LABELS,  \* constants.js chart buffers
  chart,            \* chart.js: <<>> is null, else the dataset of the main chart
  miniChart,        \* chart.js: TRUE once the overview chart exists
  chartAsset,
  out,              \* frames handed to ws.send() by the last step
  alertMsg,         \* alert() raised by the last step, "" if none
  received,         \* every price received per asset, in arrival order
  lastTick,         \* the most recent TICK frame, <<>> before the first
  nTicks, nChanges, \* exploration counters
  idle,             \* the handler of the last step when it returned without acting, else ""
  kpis,             \* the KPI cells written by renderPortfolio: <<>> until the first snapshot
  posRows,          \* children of #pos_rows
  tradeRows,        \* children of #trades_rows
  lbRows,           \* children of #lb_rows
  shown,            \* the PORTFOLIO and LEADERBOARD snapshots handled so far, in order
  NEWS_HEADLINES,   \* ticker.js: the headline list
  currentIndex,     \* ticker.js: the rotation index
  tickerInterval,   \* ticker.js: 0 is null, else the id of the interval stored last
  timers,           \* the intervals created by setInterval so far: "live" or "cleared", by id
  pendingInit,      \* setTimeout(initTicker) callbacks scheduled and not yet run
  tickerText,       \* children of #tickerText
  stopped,          \* stopTicker() has returned and initTicker() has not run since
  nAlerts,          \* addTickerHeadline calls so far
  nLogCalls         \* direct log() calls so far

sessionVars == <<userId, lobbyId, isHost>>
screenVars == <<hidden>>
lobbyVars == <<userIdBox, inviteBox, lobbyIdTxt, lobbyStatus, hostIdTxt, ruleTxt,
               playersRows, btnStartDisabled>>
marketVars == <<timeLeft, orderRows, marketRows, previousPrices, priceHistory,
                received, lastTick, nTicks, nChanges>>
chartVars == <<HISTORY, LABELS, chart, miniChart, chartAsset>>
connVars == <<socks, ws, wsStatus>>
viewVars == <<kpis, posRows, tradeRows, lbRows, shown>>
tickerVars == <<NEWS_HEADLINES, currentIndex, tickerInterval, timers, pendingInit,
                tickerText, stopped, nAlerts>>
vars == <<socks, ws, userId, lobbyId, isHost, hidden, wsStatus, log, userIdBox,
          inviteBox, lobbyIdTxt, lobbyStatus, hostIdTxt, ruleTxt, playersRows,
          btnStartDisabled, timeLeft, orderRows, marketRows, previousPrices,
          priceHistory, HISTORY, LABELS, chart, miniChart, chartAsset, out,
          alertMsg, received, lastTick, nTicks, nChanges, idle, kpis,
          posRows, tradeRows, lbRows, shown, NEWS_HEADLINES, currentIndex,
          tickerInterval, timers, pendingInit, tickerText, stopped, nAlerts, nLogCalls>>

(***************************************************************************)
(* The page as index.html delivers it: the setup screen is shown, the     *)
(* lobby card and the game area carry the class "hidden", the start       *)
(* button is disabled.                                                     *)
(***************************************************************************)
InitialHidden == [setupScreen |-> FALSE, lobbyCard |-> TRUE, gameArea |-> TRUE]
InitialBtnStartDisabled == TRUE

Init ==
  /\ socks = <<>> /\ ws = 0
  /\ userId = Null /\ lobbyId = Null /\ isHost = FALSE
  /\ hidden = InitialHidden
  /\ wsStatus = "" /\ log = <<>>
  /\ userIdBox = <<>> /\ inviteBox = <<>> /\ lobbyIdTxt = "" /\ lobbyStatus = ""
  /\ hostIdTxt = "" /\ ruleTxt = <<>> /\ playersRows = <<>>
  /\ btnStartDisabled = InitialBtnStartDisabled
  /\ timeLeft = ""
  /\ orderRows = <<>> /\ marketRows = <<>>
  /\ previousPrices = <<>>
  /\ priceHistory = [a \in Assets |-> <<>>]
  /\ HISTORY = [a \in Assets |-> <<>>] /\ LABELS = <<>>
  /\ chart = <<>> /\ miniChart = FALSE /\ chartAsset = "OIL"
  /\ out = <<>> /\ alertMsg = ""
  /\ received = [a \in Assets |-> <<>>]
  /\ lastTick = <<>> /\ nTicks = 0 /\ nChanges = 0
  /\ idle = ""
  /\ kpis = <<>> /\ posRows = <<>> /\ tradeRows = <<>> /\ lbRows = <<>>
  /\ shown = <<>>
  /\ NEWS_HEADLINES = [k \in 1..INITIAL_HEADLINES |-> <<"news", k>>]
  /\ currentIndex = 0 /\ tickerInterval = 0 /\ timers = <<>> /\ pendingInit = 0
  /\ tickerText = <<>> /\ stopped = FALSE /\ nAlerts = 0
  /\ nLogCalls = 0

(***************************************************************************)
(* ui.js                                                                   *)
(***************************************************************************)
\* log(m) that removes first children while more than 50 remain
logInsertDropsNewest(entries, m) ==
  LET grown == <<m>> \o entries
  IN IF Len(grown) > LOG_KEEP THEN Tail(grown) ELSE grown

\* log(m) that adds the entry below the others
logInsertAtEnd(entries, m) ==
  LET grown == entries \o <<m>>
  IN IF Len(grown) > LOG_KEEP THEN SubSeq(grown, 1, LOG_KEEP) ELSE grown

\* log(m): the entry is inserted before the first child, then last children
\* are removed while more than 50 remain
logInsert(entries, m) ==
  LET grown == <<m>> \o entries
  IN IF Len(grown) > LOG_KEEP THEN SubSeq(grown, 1, LOG_KEEP) ELSE grown

\* setWsStatus(ok)
wsStatusText(ok) == IF ok THEN "connected" ELSE "disconnected"

\* showLobbyCard with the setup screen toggled instead of hidden
showLobbyCardTogglesSetup(h, show) ==
  LET h1 == [h EXCEPT !.lobbyCard = ~show]
  IN IF show THEN [h1 EXCEPT !.setupScreen = ~h.setupScreen] ELSE h1

\* showLobbyCard(show): toggles "hidden" on the lobby card; hides setup when showing
showLobbyCard(h, show) ==
  LET h1 == [h EXCEPT !.lobbyCard = ~show]
  IN IF show THEN [h1 EXCEPT !.setupScreen = TRUE] ELSE h1

\* showGameArea that hides the setup screen only
showGameAreaKeepsLobby(h, show) ==
  LET h1 == [h EXCEPT !.gameArea = ~show]
  IN IF show THEN [h1 EXCEPT !.setupScreen = TRUE] ELSE h1

\* showGameArea(show): toggles "hidden" on the game area; hides the others when showing
showGameArea(h, show) ==
  LET h1 == [h EXCEPT !.gameArea = ~show]
  IN IF show THEN [h1 EXCEPT !.setupScreen = TRUE, !.lobbyCard = TRUE] ELSE h1

(***************************************************************************)
(* ws.js: connection                                                       *)
(***************************************************************************)
\* ensureConnected without the readyState test
ensureConnectedAnySocket == ws # 0

ensureConnected == ws # 0 /\ socks[ws].readyState = "OPEN"

\* log entries of the connection callbacks: a socket opens, fails and closes once
ConnectionLogs == {<<"WebSocket connected">>, <<"WebSocket error (see console).">>,
                   <<"WebSocket disconnected">>}

\* the guard of the handlers that can log any number of times: MaxLog such
\* entries are explored
CanLog == Cardinality({j \in 1..Len(log) : log[j] \notin ConnectionLogs}) < MaxLog

\* connectWS without the test of the current socket
connectWSAlwaysNew ==
  /\ socks' = Append(socks, [readyState |-> "CONNECTING", qsUserId |-> userId])
  /\ ws' = Len(socks) + 1
  /\ out' = <<>> /\ alertMsg' = ""
  /\ idle' = IF ensureConnected THEN "connectWS" ELSE ""
  /\ UNCHANGED <<tickerVars, nLogCalls>>
  /\ UNCHANGED viewVars
  /\ UNCHANGED <<wsStatus, log, sessionVars, screenVars, lobbyVars, marketVars, chartVars>>

\* connectWS that never puts the stored userId in the url
connectWSAnonymous ==
  /\ IF ensureConnected
       THEN UNCHANGED <<socks, ws>>
       ELSE /\ socks' = Append(socks, [readyState |-> "CONNECTING", qsUserId |-> Null])
            /\ ws' = Len(socks) + 1
  /\ out' = <<>> /\ alertMsg' = ""
  /\ idle' = IF ensureConnected THEN "connectWS" ELSE ""
  /\ UNCHANGED <<tickerVars, nLogCalls>>
  /\ UNCHANGED viewVars
  /\ UNCHANGED <<wsStatus, log, sessionVars, screenVars, lobbyVars, marketVars, chartVars>>

\* connectWS(): nothing when the current socket is open, else a new
\* WebSocket whose url carries the stored userId, with fresh handlers
connectWS ==
  /\ IF ensureConnected
       THEN UNCHANGED <<socks, ws>>
       ELSE /\ socks' = Append(socks, [readyState |-> "CONNECTING", qsUserId |-> userId])
            /\ ws' = Len(socks) + 1
  /\ out' = <<>> /\ alertMsg' = ""
  /\ idle' = IF ensureConnected THEN "connectWS" ELSE ""
  /\ UNCHANGED <<tickerVars, nLogCalls>>
  /\ UNCHANGED viewVars
  /\ UNCHANGED <<wsStatus, log, sessionVars, screenVars, lobbyVars, marketVars, chartVars>>

\* ws.onopen of socket i
onopen(i) ==
  /\ socks[i].readyState = "CONNECTING"
  /\ socks' = [socks EXCEPT ![i].readyState = "OPEN"]
  /\ wsStatus' = wsStatusText(TRUE)
  /\ log' = logInsert(log, <<"WebSocket connected">>)
  /\ out' = <<>> /\ alertMsg' = ""
  /\ idle' = ""
  /\ UNCHANGED <<tickerVars, nLogCalls>>
  /\ UNCHANGED viewVars
  /\ UNCHANGED <<ws, sessionVars, screenVars, lobbyVars, marketVars, chartVars>>

\* ws.onerror of socket i: the browser reports the failure and closes the socket
onerror(i) ==
  /\ socks[i].readyState \in {"CONNECTING", "OPEN"}
  /\ socks' = [socks EXCEPT ![i].readyState = "CLOSING"]
  /\ wsStatus' = wsStatusText(FALSE)
  /\ log' = logInsert(log, <<"WebSocket error (see console).">>)
  /\ out' = <<>> /\ alertMsg' = ""
  /\ idle' = ""
  /\ UNCHANGED <<tickerVars, nLogCalls>>
  /\ UNCHANGED viewVars
  /\ UNCHANGED <<ws, sessionVars, screenVars, lobbyVars, marketVars, chartVars>>

\* onclose that opens a replacement socket
oncloseReconnects(i) ==
  /\ socks[i].readyState \in {"CONNECTING", "OPEN", "CLOSING"}
  /\ socks' = Append([socks EXCEPT ![i].readyState = "CLOSED"],
                     [readyState |-> "CONNECTING", qsUserId |-> userId])
  /\ ws' = Len(socks) + 1
  /\ wsStatus' = wsStatusText(FALSE)
  /\ log' = logInsert(log, <<"WebSocket disconnected">>)
  /\ out' = <<>> /\ alertMsg' = ""
  /\ idle' = ""
  /\ UNCHANGED <<tickerVars, nLogCalls>>
  /\ UNCHANGED viewVars
  /\ UNCHANGED <<sessionVars, screenVars, lobbyVars, marketVars, chartVars>>

\* ws.onclose of socket i
onclose(i) ==
  /\ socks[i].readyState \in {"CONNECTING", "OPEN", "CLOSING"}
  /\ socks' = [socks EXCEPT ![i].readyState = "CLOSED"]
  /\ wsStatus' = wsStatusText(FALSE)
  /\ log' = logInsert(log, <<"WebSocket disconnected">>)
  /\ out' = <<>> /\ alertMsg' = ""
  /\ idle' = ""
  /\ UNCHANGED <<tickerVars, nLogCalls>>
  /\ UNCHANGED viewVars
  /\ UNCHANGED <<ws, sessionVars, screenVars, lobbyVars, marketVars, chartVars>>

(***************************************************************************)
(* market.js                                                               *)
(***************************************************************************)
\* initMarket(onOrder): one order row per asset, price cell "-", BUY and SELL wired
initMarket == [a \in Assets |-> [p |-> <<>>]]

\* initMarketData(): one market row per asset, every cell "-"
initMarketData ==
  [a \in Assets |-> [mp |-> <<>>, chg |-> <<>>, chgCls |-> "price-change",
                     chgp |-> <<>>, chgpCls |-> "price-change", flash |-> {}]]

\* changeClass with zero counted as a rise
changeClassZeroUp(x) ==
  IF x >= 0 THEN "price-change up" ELSE "price-change down"

\* className of a change cell from the sign of the number it shows
changeClass(x) ==
  IF x > 0 THEN "price-change up"
  ELSE IF x < 0 THEN "price-change down"
  ELSE "price-change"

\* the flash classes of a market row, flash is the set of those it carries
FlashClasses == {"flash-green", "flash-red"}

\* the flash class added to a market row for a change
flashClass(change) ==
  IF change > 0 THEN {"flash-green"}
  ELSE IF change < 0 THEN {"flash-red"}
  ELSE {}

\* marketRowAfter without classList.remove('flash-green', 'flash-red')
marketRowAfterKeepsFlash(row, price, prev) ==
  IF prev # <<>>
    THEN LET change == price - prev[1]
         IN [mp |-> <<price>>,
             chg |-> <<change>>, chgCls |-> changeClass(change),
             chgp |-> <<change * 100, prev[1]>>, chgpCls |-> changeClass(change * prev[1]),
             flash |-> row.flash \cup flashClass(change)]
    ELSE [row EXCEPT !.mp = <<price>>, !.chg = <<>>, !.chgp = <<>>]

\* the market row of one asset after a tick that holds price for it;
\* prev is <<>> when previousPrices has no entry for the asset.
\* changePct is kept as the exact fraction <<change * 100, prevPrice>>.
\* Both flash classes are removed from the row, then one is added.
marketRowAfter(row, price, prev) ==
  IF prev # <<>>
    THEN LET change == price - prev[1]
         IN [mp |-> <<price>>,
             chg |-> <<change>>, chgCls |-> changeClass(change),
             chgp |-> <<change * 100, prev[1]>>, chgpCls |-> changeClass(change * prev[1]),
             flash |-> (row.flash \ FlashClasses) \cup flashClass(change)]
    ELSE [row EXCEPT !.mp = <<price>>, !.chg = <<>>, !.chgp = <<>>]

\* sparkPush that drops the newest point (pop) instead of the oldest (shift)
sparkPushDropsNewest(hist, price) ==
  LET grown == Append(hist, price)
  IN IF Len(grown) > SPARK_POINTS THEN SubSeq(grown, 1, SPARK_POINTS) ELSE grown

\* priceHistory[asset].push(priceValue), then shift() when longer than 20
sparkPush(hist, price) ==
  LET grown == Append(hist, price)
  IN IF Len(grown) > SPARK_POINTS THEN Tail(grown) ELSE grown

prevOf(prevMap, a) == IF a \in DOMAIN prevMap THEN <<prevMap[a]>> ELSE <<>>

\* updatePrices that blanks the market row of an asset the tick does not hold
updatePricesBlanksAbsent(has, priceMap) ==
  IF ~has
    THEN UNCHANGED <<orderRows, marketRows, previousPrices, priceHistory>>
    ELSE
      /\ orderRows' =
           IF orderRows = <<>> THEN orderRows
           ELSE [a \in Assets |->
                   IF a \in DOMAIN priceMap THEN [p |-> <<priceMap[a]>>] ELSE orderRows[a]]
      /\ marketRows' =
           IF marketRows = <<>> THEN marketRows
           ELSE [a \in Assets |->
                   IF a \in DOMAIN priceMap
                     THEN marketRowAfter(marketRows[a], priceMap[a], prevOf(previousPrices, a))
                     ELSE initMarketData[a]]
      /\ priceHistory' =
           [a \in Assets |->
              IF a \in DOMAIN priceMap THEN sparkPush(priceHistory[a], priceMap[a])
              ELSE priceHistory[a]]
      /\ previousPrices' =
           [a \in DOMAIN previousPrices \cup DOMAIN priceMap |->
              IF a \in DOMAIN priceMap THEN priceMap[a] ELSE previousPrices[a]]

\* updatePrices that stores the previous price of an asset once and never again
updatePricesKeepsFirst(has, priceMap) ==
  IF ~has
    THEN UNCHANGED <<orderRows, marketRows, previousPrices, priceHistory>>
    ELSE
      /\ orderRows' =
           IF orderRows = <<>> THEN orderRows
           ELSE [a \in Assets |->
                   IF a \in DOMAIN priceMap THEN [p |-> <<priceMap[a]>>] ELSE orderRows[a]]
      /\ marketRows' =
           IF marketRows = <<>> THEN marketRows
           ELSE [a \in Assets |->
                   IF a \in DOMAIN priceMap
                     THEN marketRowAfter(marketRows[a], priceMap[a], prevOf(previousPrices, a))
                     ELSE marketRows[a]]
      /\ priceHistory' =
           [a \in Assets |->
              IF a \in DOMAIN priceMap THEN sparkPush(priceHistory[a], priceMap[a])
              ELSE priceHistory[a]]
      /\ previousPrices' =
           [a \in DOMAIN previousPrices \cup DOMAIN priceMap |->
              IF a \in DOMAIN previousPrices THEN previousPrices[a] ELSE priceMap[a]]

\* updatePrices(priceMap): has is FALSE when msg.prices is missing
updatePrices(has, priceMap) ==
  IF ~has
    THEN UNCHANGED <<orderRows, marketRows, previousPrices, priceHistory>>
    ELSE
      /\ orderRows' =
           IF orderRows = <<>> THEN orderRows
           ELSE [a \in Assets |->
                   IF a \in DOMAIN priceMap THEN [p |-> <<priceMap[a]>>] ELSE orderRows[a]]
      /\ marketRows' =
           IF marketRows = <<>> THEN marketRows
           ELSE [a \in Assets |->
                   IF a \in DOMAIN priceMap
                     THEN marketRowAfter(marketRows[a], priceMap[a], prevOf(previousPrices, a))
                     ELSE marketRows[a]]
      /\ priceHistory' =
           [a \in Assets |->
              IF a \in DOMAIN priceMap THEN sparkPush(priceHistory[a], priceMap[a])
              ELSE priceHistory[a]]
      /\ previousPrices' =
           [a \in DOMAIN previousPrices \cup DOMAIN priceMap |->
              IF a \in DOMAIN priceMap THEN priceMap[a] ELSE previousPrices[a]]

(***************************************************************************)
(* chart.js                                                                *)
(***************************************************************************)
\* a chart point: <<p>> is the number p, <<>> is null (the asset was not in the tick)
pointOf(priceMap, a) == IF a \in DOMAIN priceMap THEN <<priceMap[a]>> ELSE <<>>

\* the number a point compares as: null compares as 0
pointNum(pt) == IF pt = <<>> THEN 0 ELSE pt[1]

\* chartPush that drops the newest point (pop) instead of the oldest (shift)
chartPushDropsNewest(arr, x) ==
  LET grown == Append(arr, x)
  IN IF Len(grown) > MAX_POINTS THEN SubSeq(grown, 1, MAX_POINTS) ELSE grown

\* arr.push(x), then shift() when longer than MAX_POINTS
chartPush(arr, x) ==
  LET grown == Append(arr, x)
  IN IF Len(grown) > MAX_POINTS THEN Tail(grown) ELSE grown

\* trendColor that compares the last point with the first of the series
trendColorFromFirst(data) ==
  IF pointNum(data[Len(data)]) > pointNum(data[1]) THEN "green" ELSE "red"

\* line colour from the last two points of a series
trendColor(data) ==
  IF pointNum(data[Len(data)]) > pointNum(data[Len(data) - 1]) THEN "green" ELSE "red"

\* initChart(): the main chart on the selected asset, default colour; the overview chart
initChart ==
  /\ chart' = [label |-> chartAsset, data |-> chartAsset, borderColor |-> "blue"]
  /\ miniChart' = TRUE

\* new Date().toLocaleTimeString() at the n-th tick: ticks are seconds apart,
\* so every tick reads a different time
toLocaleTimeString(n) == <<"ts", n>>

\* pushTickToHistory(prices)
pushTickToHistory(has, priceMap) ==
  IF ~has
    THEN UNCHANGED <<HISTORY, LABELS, chart>>
    ELSE
      /\ LABELS' = chartPush(LABELS, toLocaleTimeString(nTicks))
      /\ HISTORY' = [a \in Assets |-> chartPush(HISTORY[a], pointOf(priceMap, a))]
      /\ chart' =
           IF chart # <<>> /\ Len(HISTORY'[chartAsset]) >= 2
             THEN [chart EXCEPT !.borderColor = trendColor(HISTORY'[chartAsset])]
             ELSE chart

\* line colour when the chart is switched: from the first and last point of the series
switchColor(data) ==
  IF Len(data) >= 2 /\ pointNum(data[Len(data)]) > pointNum(data[1]) THEN "green" ELSE "red"

\* updateChartAsset that starts the newly selected series afresh
updateChartAssetResets(newAsset) ==
  /\ chartAsset' = newAsset
  /\ HISTORY' = [HISTORY EXCEPT ![newAsset] = <<>>]
  /\ chart' = IF chart = <<>> THEN chart
              ELSE [label |-> newAsset, data |-> newAsset, borderColor |-> "red"]
  /\ out' = <<>> /\ alertMsg' = ""
  /\ idle' = ""
  /\ UNCHANGED <<tickerVars, nLogCalls>>
  /\ UNCHANGED viewVars
  /\ UNCHANGED <<connVars, log, sessionVars, screenVars, lobbyVars, marketVars,
                 LABELS, miniChart>>

\* updateChartAsset(newAsset): the asset selector's change event and the
\* keyboard shortcuts call it
updateChartAsset(newAsset) ==
  /\ chartAsset' = newAsset
  /\ chart' = IF chart = <<>> THEN chart
              ELSE [label |-> newAsset, data |-> newAsset,
                    borderColor |-> switchColor(HISTORY[newAsset])]
  /\ out' = <<>> /\ alertMsg' = ""
  /\ idle' = ""
  /\ UNCHANGED <<tickerVars, nLogCalls>>
  /\ UNCHANGED viewVars
  /\ UNCHANGED <<connVars, log, sessionVars, screenVars, lobbyVars, marketVars,
                 HISTORY, LABELS, miniChart>>

(***************************************************************************)
(* portfolio.js and leaderboard.js                                         *)
(***************************************************************************)
\* Number.prototype.toFixed(2) on the whole numbers of the input domain
toFixed(x) == [digits |-> x, decimals |-> 2]

\* getPnLClass(value)
getPnLClass(value) ==
  IF value > 0 THEN "pnl-positive"
  ELSE IF value < 0 THEN "pnl-negative"
  ELSE "pnl-neutral"

\* formatPnL(value): a "+" before a value that is not negative
formatPnL(value) == [sign |-> IF value >= 0 THEN "+" ELSE "", text |-> toFixed(value)]

\* tb.innerHTML = "" that leaves the rows in place
clearRowsKeeps(rows) == rows

\* tb.innerHTML = ""
clearRows(rows) == <<>>

\* Array.prototype.reverse on a copy
Reverse(seq) == [k \in 1..Len(seq) |-> seq[Len(seq) - k + 1]]

\* Array.prototype.slice(0, n)
SliceTo(seq, n) == SubSeq(seq, 1, IF Len(seq) < n THEN Len(seq) ELSE n)

\* the trades shown when slice(0, 5) is taken before reverse()
recentTradesOldest(trades) == Reverse(SliceTo(trades, TRADES_SHOWN))

\* (p.trades || []).slice().reverse().slice(0, 5)
recentTrades(trades) == SliceTo(Reverse(trades), TRADES_SHOWN)

\* the <tr> of one position; pnlPct is exact on the input domain, where avg
\* divides (price - avg) * 100
positionRow(row) ==
  LET pnlPct == ((row.price - row.avg) * 100) \div row.avg
  IN [asset |-> row.asset, qty |-> row.qty, avg |-> toFixed(row.avg),
      price |-> toFixed(row.price), mktValue |-> toFixed(row.mktValue),
      uPnL |-> formatPnL(row.uPnL), pct |-> formatPnL(pnlPct),
      pnlClass |-> getPnLClass(row.uPnL)]

\* the <tr> of one trade
tradeRow(t) ==
  [ts |-> <<"HH:MM", t.ts>>, asset |-> t.asset, side |-> t.side_open,
   sideClass |-> IF t.side_open = "BUY" THEN "pnl-positive" ELSE "pnl-negative",
   qty |-> t.qty, pnl |-> formatPnL(t.realized_pnl),
   pnlClass |-> getPnLClass(t.realized_pnl)]

\* renderPortfolio(p) on the view [kpis, posRows, tradeRows]: the KPI cells
\* are overwritten, each table is emptied and refilled
renderPortfolio(view, p) ==
  LET totalPnL == p.uPnL + p.realizedPnL
      positions == IF p.hasPositions THEN p.positions ELSE <<>>
      trades == recentTrades(IF p.hasTrades THEN p.trades ELSE <<>>)
  IN [kpis |->
        [cash |-> toFixed(p.cash), equity |-> toFixed(p.equity),
         upnl |-> formatPnL(p.uPnL), upnlClass |-> getPnLClass(p.uPnL),
         rpnl |-> formatPnL(p.realizedPnL), rpnlClass |-> getPnLClass(p.realizedPnL),
         cashTop |-> toFixed(p.cash), equityTop |-> toFixed(p.equity),
         pnlTop |-> formatPnL(totalPnL),
         pnlTopClass |-> IF totalPnL >= 0 THEN "positive" ELSE "negative"],
      posRows |->
        clearRows(view.posRows) \o [k \in 1..Len(positions) |-> positionRow(positions[k])],
      tradeRows |->
        clearRows(view.tradeRows) \o [k \in 1..Len(trades) |-> tradeRow(trades[k])]]

\* the rank cell: a medal before the first three ranks
rankDisplay(index) ==
  IF index = 0 THEN <<"gold", 1>>
  ELSE IF index = 1 THEN <<"silver", 2>>
  ELSE IF index = 2 THEN <<"bronze", 3>>
  ELSE <<"", index + 1>>

\* the <tr> of the leaderboard row at the 0-based position index
leaderboardRow(r, index) ==
  [rank |-> rankDisplay(index), name |-> r.name, equity |-> toFixed(r.equity),
   pnl |-> formatPnL(r.realizedPnL), pnlClass |-> getPnLClass(r.realizedPnL),
   perf |-> formatPnL(r.realizedPnL), perfClass |-> getPnLClass(r.realizedPnL),
   highlight |-> index < TOP_RANKS]

\* renderLeaderboard that shows the last row first
renderLeaderboardReversed(rows, lb) ==
  LET given == Reverse(IF lb.hasRows THEN lb.rows ELSE <<>>)
  IN clearRows(rows) \o [k \in 1..Len(given) |-> leaderboardRow(given[k], k - 1)]

\* renderLeaderboard(lb) on the children of #lb_rows
renderLeaderboard(rows, lb) ==
  LET given == IF lb.hasRows THEN lb.rows ELSE <<>>
  IN clearRows(rows) \o [k \in 1..Len(given) |-> leaderboardRow(given[k], k - 1)]

(***************************************************************************)
(* ws.js: ws.onmessage of socket i, one action per case of the switch      *)
(***************************************************************************)
Delivers(i) == i \in 1..Len(socks) /\ socks[i].readyState = "OPEN"

HelloMsgs == [type : {"HELLO"}, userId : UserIds]
InviteCodeMsgs == [type : {"INVITE_CODE"}, lobbyId : LobbyIds]
LobbyStateMsgs == [type : {"LOBBY_STATE"}, lobbyId : LobbyIds, status : Statuses,
                   hostId : UserIds, rules : {DEFAULTS}, players : Rosters]
\* the TICK frames explored: every asset is seen rising, falling, unchanged
\* and missing; one frame has no price map, one no remainingSec
tickMsg(has, prices, rem) ==
  [type |-> "TICK", hasPrices |-> has, prices |-> prices, remainingSec |-> rem]
TickMsgs ==
  { tickMsg(TRUE, ("OIL" :> 1) @@ ("GOLD" :> 2), "60"),
    tickMsg(TRUE, ("OIL" :> 2) @@ ("GOLD" :> 1), "60"),
    tickMsg(TRUE, ("OIL" :> 2), "undefined"),
    tickMsg(TRUE, <<>>, "60"),
    tickMsg(FALSE, <<>>, "60") }
OrderAcceptedMsgs == [type : {"ORDER_ACCEPTED"}, side : {"BUY"}, asset : {"OIL"},
                      qty : {10}, price : {1}]
OrderRejectMsgs == [type : {"ORDER_REJECT"}, reason : {"Insufficient cash"}]

\* the k-th trade of a player, oldest first
Trade(k) ==
  [ts |-> k, asset |-> ASSETS[(k % 2) + 1], side_open |-> IF k % 3 = 0 THEN "SELL" ELSE "BUY",
   qty |-> k, realized_pnl |-> (k % 3) - 1]
PositionLists ==
  { <<>>,
    \* a long position at a loss, and a short position at a gain: the price
    \* fell below the entry of both
    <<[asset |-> "OIL", qty |-> 10, avg |-> 4, price |-> 3, mktValue |-> 30, uPnL |-> -10],
      [asset |-> "GOLD", qty |-> -5, avg |-> 4, price |-> 3, mktValue |-> -15, uPnL |-> 5]>> }
\* PORTFOLIO snapshots: 0..MaxTrades trades, with and without positions, and
\* one that carries neither list
PortfolioMsgs ==
  { [type |-> "PORTFOLIO", cash |-> 10000 - 45 * Len(pos), equity |-> 10000 + n - Len(pos),
     uPnL |-> (5 * Len(pos)) \div 2, realizedPnL |-> n - 3,
     hasPositions |-> TRUE, positions |-> pos,
     hasTrades |-> TRUE, trades |-> [k \in 1..n |-> Trade(k)]]
      : n \in 0..MaxTrades, pos \in PositionLists }
  \cup { [type |-> "PORTFOLIO", cash |-> 10000, equity |-> 10000, uPnL |-> 0,
          realizedPnL |-> 0, hasPositions |-> FALSE, positions |-> <<>>,
          hasTrades |-> FALSE, trades |-> <<>>] }
\* the k-th row of a leaderboard as the server sends it
Entry(k) ==
  [name |-> <<"P", k>>, equity |-> 10000 + ((k * 7) % 5) * 1000,
   realizedPnL |-> ((k % 3) - 1) * 100]
\* LEADERBOARD snapshots: 0..MaxRows rows in server order and in the opposite
\* order, and one without rows
LeaderboardMsgs ==
  { [type |-> "LEADERBOARD", hasRows |-> TRUE, rows |-> [k \in 1..n |-> Entry(k)]]
      : n \in 0..MaxRows }
  \cup { [type |-> "LEADERBOARD", hasRows |-> TRUE,
          rows |-> [k \in 1..n |-> Entry(n - k + 1)]] : n \in 2..MaxRows }
  \cup { [type |-> "LEADERBOARD", hasRows |-> FALSE, rows |-> <<>>] }

\* a portfolio with positions and trades, a leaderboard with rows
LastPortfolio ==
  CHOOSE m \in PortfolioMsgs :
    m.hasTrades /\ Len(m.trades) = MaxTrades /\ Len(m.positions) = 2
LastLeaderboard ==
  CHOOSE m \in LeaderboardMsgs : m.rows = [k \in 1..MaxRows |-> Entry(k)]

\* HELLO that recomputes the host flag against the displayed host
HELLORecomputesHost(i, msg) ==
  /\ Delivers(i)
  /\ userId' = msg.userId
  /\ userIdBox' = <<"userId: ", msg.userId>>
  /\ isHost' = (msg.userId = hostIdTxt)
  /\ out' = <<>> /\ alertMsg' = ""
  /\ idle' = ""
  /\ UNCHANGED <<tickerVars, nLogCalls>>
  /\ UNCHANGED viewVars
  /\ UNCHANGED <<connVars, log, lobbyId, screenVars, inviteBox, lobbyIdTxt,
                 lobbyStatus, hostIdTxt, ruleTxt, playersRows, btnStartDisabled,
                 marketVars, chartVars>>

\* case "HELLO"
HELLO(i, msg) ==
  /\ Delivers(i)
  /\ userId' = msg.userId
  /\ userIdBox' = <<"userId: ", msg.userId>>
  /\ out' = <<>> /\ alertMsg' = ""
  /\ idle' = ""
  /\ UNCHANGED <<tickerVars, nLogCalls>>
  /\ UNCHANGED viewVars
  /\ UNCHANGED <<connVars, log, lobbyId, isHost, screenVars, inviteBox, lobbyIdTxt,
                 lobbyStatus, hostIdTxt, ruleTxt, playersRows, btnStartDisabled,
                 marketVars, chartVars>>

\* case "INVITE_CODE"
INVITE_CODE(i, msg) ==
  /\ Delivers(i)
  /\ lobbyId' = msg.lobbyId
  /\ inviteBox' = <<"Invite code: ", msg.lobbyId>>
  /\ out' = <<>> /\ alertMsg' = ""
  /\ idle' = ""
  /\ UNCHANGED <<tickerVars, nLogCalls>>
  /\ UNCHANGED viewVars
  /\ UNCHANGED <<connVars, log, userId, isHost, screenVars, userIdBox, lobbyIdTxt,
                 lobbyStatus, hostIdTxt, ruleTxt, playersRows, btnStartDisabled,
                 marketVars, chartVars>>

\* startDisabled that looks at the host flag only
startDisabledIgnoresStatus(host, status) == ~host

\* byId("btnStart").disabled = !(isHost && msg.status === "LOBBY")
startDisabled(host, status) == ~(host /\ status = "LOBBY")

\* case "LOBBY_STATE"
LOBBY_STATE(i, msg) ==
  /\ Delivers(i)
  /\ hidden' = showLobbyCard(hidden, TRUE)
  /\ lobbyId' = msg.lobbyId
  /\ lobbyIdTxt' = msg.lobbyId
  /\ lobbyStatus' = msg.status
  /\ hostIdTxt' = msg.hostId
  /\ inviteBox' = <<msg.lobbyId>>
  /\ ruleTxt' = <<msg.rules.startingCapital, msg.rules.tickSeconds, msg.rules.durationSec>>
  /\ playersRows' = msg.players
  /\ isHost' = (userId = msg.hostId)
  /\ btnStartDisabled' = startDisabled(isHost', msg.status)
  /\ out' = <<>> /\ alertMsg' = ""
  /\ idle' = ""
  /\ UNCHANGED <<tickerVars, nLogCalls>>
  /\ UNCHANGED viewVars
  /\ UNCHANGED <<connVars, log, userId, userIdBox, marketVars, chartVars>>

\* case "GAME_STARTED"
GAME_STARTED(i) ==
  /\ Delivers(i)
  /\ hidden' = showGameArea(hidden, TRUE)
  /\ lobbyStatus' = "RUNNING"
  /\ initChart
  /\ orderRows' = initMarket
  /\ marketRows' = initMarketData
  /\ out' = <<>> /\ alertMsg' = ""
  /\ idle' = ""
  /\ UNCHANGED <<tickerVars, nLogCalls>>
  /\ UNCHANGED viewVars
  /\ UNCHANGED <<connVars, log, sessionVars, userIdBox, inviteBox, lobbyIdTxt, hostIdTxt,
                 ruleTxt, playersRows, btnStartDisabled, timeLeft, previousPrices,
                 priceHistory, received, lastTick, nTicks, nChanges, HISTORY, LABELS,
                 chartAsset>>

\* case "GAME_ENDED"
GAME_ENDED(i) ==
  /\ Delivers(i)
  /\ CanLog
  /\ lobbyStatus' = "ENDED"
  /\ log' = logInsert(log, <<"Game ended.">>)
  /\ out' = <<>> /\ alertMsg' = ""
  /\ idle' = ""
  /\ UNCHANGED <<tickerVars, nLogCalls>>
  /\ UNCHANGED viewVars
  /\ UNCHANGED <<connVars, sessionVars, screenVars, userIdBox, inviteBox, lobbyIdTxt,
                 hostIdTxt, ruleTxt, playersRows, btnStartDisabled, marketVars, chartVars>>

\* case "TICK"
TICK(i, msg) ==
  /\ Delivers(i)
  /\ updatePrices(msg.hasPrices, msg.prices)
  /\ timeLeft' = IF msg.remainingSec = "undefined" THEN "-" ELSE msg.remainingSec
  /\ pushTickToHistory(msg.hasPrices, msg.prices)
  /\ received' = [a \in Assets |->
                    IF msg.hasPrices /\ a \in DOMAIN msg.prices
                      THEN Append(received[a], msg.prices[a]) ELSE received[a]]
  /\ lastTick' = <<msg>>
  /\ nTicks' = nTicks + 1
  /\ nChanges' = IF lastTick # <<>> /\ lastTick # <<msg>> THEN nChanges + 1 ELSE nChanges
  /\ out' = <<>> /\ alertMsg' = ""
  /\ idle' = ""
  /\ UNCHANGED <<tickerVars, nLogCalls>>
  /\ UNCHANGED viewVars
  /\ UNCHANGED <<connVars, log, sessionVars, screenVars, lobbyVars, miniChart, chartAsset>>

\* case "PORTFOLIO"
PORTFOLIO(i, msg) ==
  /\ Delivers(i)
  /\ shown' = Append(shown, msg)
  /\ LET view == renderPortfolio([kpis |-> kpis, posRows |-> posRows,
                                  tradeRows |-> tradeRows], msg)
     IN /\ kpis' = view.kpis
        /\ posRows' = view.posRows
        /\ tradeRows' = view.tradeRows
  /\ out' = <<>> /\ alertMsg' = ""
  /\ idle' = ""
  /\ UNCHANGED <<tickerVars, nLogCalls>>
  /\ UNCHANGED <<connVars, log, sessionVars, screenVars, lobbyVars, marketVars, chartVars,
                 lbRows>>

\* case "LEADERBOARD"
LEADERBOARD(i, msg) ==
  /\ Delivers(i)
  /\ shown' = Append(shown, msg)
  /\ lbRows' = renderLeaderboard(lbRows, msg)
  /\ out' = <<>> /\ alertMsg' = ""
  /\ idle' = ""
  /\ UNCHANGED <<tickerVars, nLogCalls>>
  /\ UNCHANGED <<connVars, log, sessionVars, screenVars, lobbyVars, marketVars, chartVars,
                 kpis, posRows, tradeRows>>

\* case "ORDER_ACCEPTED"
ORDER_ACCEPTED(i, msg) ==
  /\ Delivers(i)
  /\ CanLog
  /\ log' = logInsert(log, <<"ORDER ACCEPTED", msg.side, msg.asset, msg.qty, msg.price>>)
  /\ out' = <<>> /\ alertMsg' = ""
  /\ idle' = ""
  /\ UNCHANGED <<tickerVars, nLogCalls>>
  /\ UNCHANGED viewVars
  /\ UNCHANGED <<connVars, sessionVars, screenVars, lobbyVars, marketVars, chartVars>>

\* ORDER_REJECT that sends the rejected order again
ORDER_REJECTResends(i, msg) ==
  /\ Delivers(i)
  /\ CanLog
  /\ log' = logInsert(log, <<"ORDER REJECTED", msg.reason>>)
  /\ out' = <<[sock |-> i, frame |-> [type |-> "ORDER", asset |-> "OIL", side |-> "BUY",
                                      qty |-> 10]]>>
  /\ alertMsg' = ""
  /\ idle' = ""
  /\ UNCHANGED <<tickerVars, nLogCalls>>
  /\ UNCHANGED viewVars
  /\ UNCHANGED <<connVars, sessionVars, screenVars, lobbyVars, marketVars, chartVars>>

\* case "ORDER_REJECT"
ORDER_REJECT(i, msg) ==
  /\ Delivers(i)
  /\ CanLog
  /\ log' = logInsert(log, <<"ORDER REJECTED", msg.reason>>)
  /\ out' = <<>> /\ alertMsg' = ""
  /\ idle' = ""
  /\ UNCHANGED <<tickerVars, nLogCalls>>
  /\ UNCHANGED viewVars
  /\ UNCHANGED <<connVars, sessionVars, screenVars, lobbyVars, marketVars, chartVars>>

\* the default case with its commented-out log() call restored
UNKNOWNLogs(i) ==
  /\ Delivers(i)
  /\ log' = logInsert(log, <<"Unknown WS message">>)
  /\ out' = <<>> /\ alertMsg' = ""
  /\ idle' = "UNKNOWN"
  /\ UNCHANGED <<tickerVars, nLogCalls>>
  /\ UNCHANGED viewVars
  /\ UNCHANGED <<connVars, sessionVars, screenVars, lobbyVars, marketVars, chartVars>>

\* default: a frame whose type is none of the above
UNKNOWN(i) ==
  /\ Delivers(i)
  /\ out' = <<>> /\ alertMsg' = ""
  /\ idle' = "UNKNOWN"
  /\ UNCHANGED <<tickerVars, nLogCalls>>
  /\ UNCHANGED viewVars
  /\ UNCHANGED <<connVars, log, sessionVars, screenVars, lobbyVars, marketVars, chartVars>>

(***************************************************************************)
(* ws.js: outbound operations                                              *)
(***************************************************************************)
\* ws.send(JSON.stringify(frame)) on the current socket
send(frame) == <<[sock |-> ws, frame |-> frame]>>

\* the BUY/SELL onclick of market.js: parseInt(qtyI.value, 10) || 0
parseQty(text) == IF text = <<>> THEN 0 ELSE text[1]

\* handleOrder that rejects negative quantities only
handleOrderAllowsZero(asset, qty, side) ==
  IF ~ensureConnected
    THEN /\ CanLog
         /\ log' = logInsert(log, <<"Not connected.">>)
         /\ out' = <<>>
    ELSE IF qty < 0
      THEN /\ CanLog
           /\ log' = logInsert(log, <<"Enter a positive quantity.">>)
           /\ out' = <<>>
      ELSE /\ out' = send([type |-> "ORDER", asset |-> asset, side |-> side, qty |-> qty])
           /\ UNCHANGED log

\* handleOrder({asset, qty, side})
handleOrder(asset, qty, side) ==
  IF ~ensureConnected
    THEN /\ CanLog
         /\ log' = logInsert(log, <<"Not connected.">>)
         /\ out' = <<>>
    ELSE IF qty = 0 \/ qty <= 0
      THEN /\ CanLog
           /\ log' = logInsert(log, <<"Enter a positive quantity.">>)
           /\ out' = <<>>
      ELSE /\ out' = send([type |-> "ORDER", asset |-> asset, side |-> side, qty |-> qty])
           /\ UNCHANGED log

\* a click on the BUY or SELL button of an order row (the rows exist once
\* initMarket has run)
orderClick(asset, side, text) ==
  /\ orderRows # <<>>
  /\ handleOrder(asset, parseQty(text), side)
  /\ alertMsg' = ""
  /\ idle' = ""
  /\ UNCHANGED <<tickerVars, nLogCalls>>
  /\ UNCHANGED viewVars
  /\ UNCHANGED <<connVars, sessionVars, screenVars, lobbyVars, marketVars, chartVars>>

\* createLobby that shows the lobby card without waiting for the server
createLobbyShowsLobby(name) ==
  /\ IF ~ensureConnected
       THEN /\ CanLog
            /\ log' = logInsert(log, <<"Not connected (cannot create lobby).">>)
            /\ out' = <<>>
            /\ UNCHANGED hidden
       ELSE /\ out' = send([type |-> "CREATE_LOBBY", name |-> name,
                            rules |-> [startingCapital |-> DEFAULTS.startingCapital,
                                       tickSeconds |-> DEFAULTS.tickSeconds,
                                       durationSec |-> DEFAULTS.durationSec]])
            /\ hidden' = showLobbyCard(hidden, TRUE)
            /\ UNCHANGED log
  /\ alertMsg' = ""
  /\ idle' = ""
  /\ UNCHANGED <<tickerVars, nLogCalls>>
  /\ UNCHANGED viewVars
  /\ UNCHANGED <<connVars, sessionVars, lobbyVars, marketVars, chartVars>>

\* createLobby()
createLobby(name) ==
  /\ IF ~ensureConnected
       THEN /\ CanLog
            /\ log' = logInsert(log, <<"Not connected (cannot create lobby).">>)
            /\ out' = <<>>
       ELSE /\ out' = send([type |-> "CREATE_LOBBY", name |-> name,
                            rules |-> [startingCapital |-> DEFAULTS.startingCapital,
                                       tickSeconds |-> DEFAULTS.tickSeconds,
                                       durationSec |-> DEFAULTS.durationSec]])
            /\ UNCHANGED log
  /\ alertMsg' = ""
  /\ idle' = ""
  /\ UNCHANGED <<tickerVars, nLogCalls>>
  /\ UNCHANGED viewVars
  /\ UNCHANGED <<connVars, sessionVars, screenVars, lobbyVars, marketVars, chartVars>>

\* String.prototype.toUpperCase on the join codes of the input domain
toUpperCase(code) == IF code = "l1" THEN "L1" ELSE code

\* joinLobby without the test of the code
joinLobbySendsEmpty(name, codeText) ==
  /\ IF ~ensureConnected
       THEN /\ CanLog
            /\ log' = logInsert(log, <<"Not connected (cannot join lobby).">>)
            /\ out' = <<>>
       ELSE /\ out' = send([type |-> "JOIN_LOBBY", lobbyId |-> toUpperCase(codeText),
                            name |-> name])
            /\ UNCHANGED log
  /\ alertMsg' = ""
  /\ idle' = ""
  /\ UNCHANGED <<tickerVars, nLogCalls>>
  /\ UNCHANGED viewVars
  /\ UNCHANGED <<connVars, sessionVars, screenVars, lobbyVars, marketVars, chartVars>>

\* joinLobby()
joinLobby(name, codeText) ==
  /\ IF ~ensureConnected
       THEN /\ CanLog
            /\ log' = logInsert(log, <<"Not connected (cannot join lobby).">>)
            /\ out' = <<>> /\ alertMsg' = ""
       ELSE IF toUpperCase(codeText) = ""
         THEN /\ alertMsg' = "Enter a lobby code."
              /\ out' = <<>>
              /\ UNCHANGED log
         ELSE /\ out' = send([type |-> "JOIN_LOBBY", lobbyId |-> toUpperCase(codeText),
                              name |-> name])
              /\ alertMsg' = ""
              /\ UNCHANGED log
  /\ idle' = ""
  /\ UNCHANGED <<tickerVars, nLogCalls>>
  /\ UNCHANGED viewVars
  /\ UNCHANGED <<connVars, sessionVars, screenVars, lobbyVars, marketVars, chartVars>>

\* setReady()
setReady(checked) ==
  /\ IF ~ensureConnected
       THEN /\ CanLog
            /\ log' = logInsert(log, <<"Not connected (cannot set ready).">>)
            /\ out' = <<>>
       ELSE /\ out' = send([type |-> "SET_READY", ready |-> checked])
            /\ UNCHANGED log
  /\ alertMsg' = ""
  /\ idle' = ""
  /\ UNCHANGED <<tickerVars, nLogCalls>>
  /\ UNCHANGED viewVars
  /\ UNCHANGED <<connVars, sessionVars, screenVars, lobbyVars, marketVars, chartVars>>

\* startGame without the host test
startGameAnyone ==
  /\ IF ~ensureConnected
       THEN /\ CanLog
            /\ log' = logInsert(log, <<"Not connected (cannot start game).">>)
            /\ out' = <<>>
       ELSE /\ out' = send([type |-> "START_GAME"])
            /\ UNCHANGED log
  /\ alertMsg' = ""
  /\ idle' = ""
  /\ UNCHANGED <<tickerVars, nLogCalls>>
  /\ UNCHANGED viewVars
  /\ UNCHANGED <<connVars, sessionVars, screenVars, lobbyVars, marketVars, chartVars>>

\* startGame()
startGame ==
  /\ IF ~ensureConnected
       THEN /\ CanLog
            /\ log' = logInsert(log, <<"Not connected (cannot start game).">>)
            /\ out' = <<>>
       ELSE IF ~isHost
         THEN /\ CanLog
              /\ log' = logInsert(log, <<"Only the host can start the game.">>)
              /\ out' = <<>>
         ELSE /\ out' = send([type |-> "START_GAME"])
              /\ UNCHANGED log
  /\ alertMsg' = ""
  /\ idle' = ""
  /\ UNCHANGED <<tickerVars, nLogCalls>>
  /\ UNCHANGED viewVars
  /\ UNCHANGED <<connVars, sessionVars, screenVars, lobbyVars, marketVars, chartVars>>

(***************************************************************************)
(* ticker.js, and the Start button of app.js                               *)
(***************************************************************************)
\* everything but the ticker and the log-call counter
pageVars == <<connVars, sessionVars, screenVars, lobbyVars, marketVars, chartVars, viewVars>>

\* the five headlines shown from index on: (index + i) % length, i = 0..4
shownFrom(list, index) ==
  [i \in 1..SHOWN_HEADLINES |-> list[((index + i - 1) % Len(list)) + 1]]

\* updateTickerContent() on the list as it is when called
updateTickerContent(list) ==
  /\ tickerText' = shownFrom(list, currentIndex)
  /\ currentIndex' = (currentIndex + 1) % Len(list)

\* initTicker(): the first content, then setInterval; the id is stored
\* over the one stored before
initTicker ==
  /\ updateTickerContent(NEWS_HEADLINES)
  /\ timers' = Append(timers, "live")
  /\ tickerInterval' = Len(timers) + 1
  /\ stopped' = FALSE

\* the click handler of the Start button: startGame(), then
\* setTimeout(() => initTicker(), 1000)
btnStartClick ==
  /\ IF ~ensureConnected
       THEN /\ CanLog
            /\ log' = logInsert(log, <<"Not connected (cannot start game).">>)
            /\ out' = <<>>
       ELSE IF ~isHost
         THEN /\ CanLog
              /\ log' = logInsert(log, <<"Only the host can start the game.">>)
              /\ out' = <<>>
         ELSE /\ out' = send([type |-> "START_GAME"])
              /\ UNCHANGED log
  /\ pendingInit' = pendingInit + 1
  /\ alertMsg' = ""
  /\ idle' = ""
  /\ UNCHANGED <<pageVars, nLogCalls>>
  /\ UNCHANGED <<NEWS_HEADLINES, currentIndex, tickerInterval, timers, tickerText,
                 stopped, nAlerts>>

\* a timeout set by the Start button runs: initTicker()
initTickerTimeout ==
  /\ pendingInit > 0
  /\ pendingInit' = pendingInit - 1
  /\ initTicker
  /\ out' = <<>> /\ alertMsg' = ""
  /\ idle' = ""
  /\ UNCHANGED <<pageVars, log, nLogCalls, NEWS_HEADLINES, nAlerts>>

\* the interval with this id fires: updateTickerContent()
rotate(id) ==
  /\ id \in 1..Len(timers) /\ timers[id] = "live"
  /\ updateTickerContent(NEWS_HEADLINES)
  /\ out' = <<>> /\ alertMsg' = ""
  /\ idle' = ""
  /\ UNCHANGED <<pageVars, log, nLogCalls, NEWS_HEADLINES, tickerInterval, timers,
                 pendingInit, stopped, nAlerts>>

\* stopTicker(): clearInterval on the stored id, if one is stored
stopTicker ==
  /\ IF tickerInterval # 0
       THEN /\ timers' = [timers EXCEPT ![tickerInterval] = "cleared"]
            /\ tickerInterval' = 0
       ELSE UNCHANGED <<timers, tickerInterval>>
  /\ stopped' = TRUE
  /\ out' = <<>> /\ alertMsg' = ""
  /\ idle' = ""
  /\ UNCHANGED <<pageVars, log, nLogCalls, NEWS_HEADLINES, currentIndex, pendingInit,
                 tickerText, nAlerts>>

\* addTickerHeadline without the pop()
addTickerHeadlineKeepsAll(headline) ==
  /\ NEWS_HEADLINES' = <<<<"ALERT", headline>>>> \o NEWS_HEADLINES
  /\ updateTickerContent(NEWS_HEADLINES')
  /\ nAlerts' = nAlerts + 1
  /\ out' = <<>> /\ alertMsg' = ""
  /\ idle' = ""
  /\ UNCHANGED <<pageVars, log, nLogCalls, tickerInterval, timers, pendingInit, stopped>>

\* addTickerHeadline(headline): unshift, pop() when longer than 30, then
\* updateTickerContent()
addTickerHeadline(headline) ==
  /\ NEWS_HEADLINES' =
       LET grown == <<<<"ALERT", headline>>>> \o NEWS_HEADLINES
       IN IF Len(grown) > MAX_HEADLINES THEN SubSeq(grown, 1, Len(grown) - 1) ELSE grown
  /\ updateTickerContent(NEWS_HEADLINES')
  /\ nAlerts' = nAlerts + 1
  /\ out' = <<>> /\ alertMsg' = ""
  /\ idle' = ""
  /\ UNCHANGED <<pageVars, log, nLogCalls, tickerInterval, timers, pendingInit, stopped>>

\* a direct call of ui.js log(m)
logCall(m) ==
  /\ log' = logInsert(log, m)
  /\ nLogCalls' = nLogCalls + 1
  /\ out' = <<>> /\ alertMsg' = ""
  /\ idle' = ""
  /\ UNCHANGED <<pageVars, tickerVars>>

(***************************************************************************)
(* Specifications                                                          *)
(***************************************************************************)
Socks == 1..Len(socks)

\* a click on Connect while the connection is not open; MaxSockets WebSocket
\* objects are explored
Connect == ~ensureConnected /\ Len(socks) < MaxSockets /\ connectWS

\* a click on Connect at any time; MaxSessions WebSocket objects are explored
ConnectSession == (ensureConnected \/ Len(socks) < MaxSessions) /\ connectWS

\* a TICK frame arrives. The server ticks prices only once the host has
\* started the game (game flow: start, then "prices tick automatically"), so
\* the client has handled GAME_STARTED before its first TICK. MaxTicks frames
\* are explored, of which MaxChanges differ from the frame before.
Tick ==
  \E i \in Socks, msg \in TickMsgs :
    /\ marketRows # <<>>
    /\ nTicks < MaxTicks
    /\ (lastTick # <<>> /\ lastTick # <<msg>>) => nChanges < MaxChanges
    /\ TICK(i, msg)

\* a TICK frame arrives where the chart buffers are filled past their
\* capacity: the first MaxChartChoices frames are any frames, the later ones
\* repeat the frame before; MaxChartTicks frames are explored
ChartTick ==
  \E i \in Socks, msg \in TickMsgs :
    /\ marketRows # <<>>
    /\ nTicks < MaxChartTicks
    /\ nTicks >= MaxChartChoices => lastTick = <<msg>>
    /\ TICK(i, msg)

Connection ==
  \/ Connect
  \/ \E i \in Socks : onopen(i)
  \/ \E i \in Socks : onerror(i)
  \/ \E i \in Socks : onclose(i)

Lifecycle ==
  \/ \E i \in Socks, msg \in HelloMsgs : HELLO(i, msg)
  \/ \E i \in Socks, msg \in InviteCodeMsgs : INVITE_CODE(i, msg)
  \/ \E i \in Socks, msg \in LobbyStateMsgs : LOBBY_STATE(i, msg)
  \/ \E i \in Socks : GAME_STARTED(i)
  \/ \E i \in Socks : GAME_ENDED(i)
  \/ \E i \in Socks : UNKNOWN(i)

Acknowledgment ==
  \/ \E i \in Socks, msg \in OrderAcceptedMsgs : ORDER_ACCEPTED(i, msg)
  \/ \E i \in Socks, msg \in OrderRejectMsgs : ORDER_REJECT(i, msg)

Order == \E a \in Assets, side \in Sides, text \in QtyInputs : orderClick(a, side, text)

Outbound ==
  \/ \E name \in Names : createLobby(name)
  \/ \E name \in Names, code \in CodeInputs : joinLobby(name, code)
  \/ \E checked \in BOOLEAN : setReady(checked)
  \/ startGame
  \/ Order

\* a snapshot arrives; MaxSnapshots are explored
Snapshot ==
  \/ \E i \in Socks, msg \in PortfolioMsgs : Len(shown) < MaxSnapshots /\ PORTFOLIO(i, msg)
  \/ \E i \in Socks, msg \in LeaderboardMsgs : Len(shown) < MaxSnapshots /\ LEADERBOARD(i, msg)

\* ws.onmessage: the switch on msg.type, on any frame
onmessage ==
  \/ Lifecycle
  \/ \E i \in Socks, msg \in TickMsgs : TICK(i, msg)
  \/ \E i \in Socks, msg \in PortfolioMsgs : PORTFOLIO(i, msg)
  \/ \E i \in Socks, msg \in LeaderboardMsgs : LEADERBOARD(i, msg)
  \/ Acknowledgment

\* the operations the page binds to its controls, on any input
Operations ==
  \/ connectWS
  \/ Outbound
  \/ \E a \in Assets : updateChartAsset(a)

\* the gateway of ws.js: its connection, every frame and every operation
Next == Connection \/ Lifecycle \/ Acknowledgment \/ Tick \/ Snapshot \/ Outbound

Spec == Init /\ [][Next]_vars

\* the session: connection, lifecycle frames and one use of every local operation
NextSession ==
  \/ Connect
  \/ \E i \in Socks : onopen(i)
  \/ \E i \in Socks : onclose(i)
  \/ Lifecycle
  \/ createLobby("alice")
  \/ joinLobby("alice", "l1")
  \/ setReady(TRUE)
  \/ startGame
  \/ orderClick("OIL", "BUY", <<10>>)

SpecSession == Init /\ [][NextSession]_vars

\* the local operations with every input, on every connection state, in and out of a lobby
NextOutbound ==
  \/ Connect
  \/ \E i \in Socks : onopen(i)
  \/ \E i \in Socks : onclose(i)
  \/ \E i \in Socks, msg \in HelloMsgs : HELLO(i, msg)
  \/ \E i \in Socks, msg \in LobbyStateMsgs : LOBBY_STATE(i, msg)
  \/ \E i \in Socks : GAME_STARTED(i)
  \/ Outbound

SpecOutbound == Init /\ [][NextOutbound]_vars

\* market data: a connection, the game start that builds the market rows, the ticks
NextMarket ==
  \/ Connect
  \/ \E i \in Socks : onopen(i)
  \/ \E i \in Socks : GAME_STARTED(i)
  \/ Tick

SpecMarket == Init /\ [][NextMarket]_vars

\* the lifecycle frames on every connection state
NextLifecycle ==
  \/ Connect
  \/ \E i \in Socks : onopen(i)
  \/ \E i \in Socks : onerror(i)
  \/ \E i \in Socks : onclose(i)
  \/ Lifecycle

SpecLifecycle == Init /\ [][NextLifecycle]_vars

\* orders: the clicks with every input and the server's replies, on every
\* connection state, before and after the identity is assigned
NextOrder ==
  \/ Connect
  \/ \E i \in Socks : onopen(i)
  \/ \E i \in Socks : onerror(i)
  \/ \E i \in Socks : onclose(i)
  \/ \E i \in Socks, msg \in HelloMsgs : HELLO(i, msg)
  \/ \E i \in Socks : GAME_STARTED(i)
  \/ Acknowledgment
  \/ Order

SpecOrder == Init /\ [][NextOrder]_vars

\* connections: Connect clicked at any time, the socket callbacks, the frames
\* that set the session state (in a lobby that has not started), one
\* operation that sends
NextConnection ==
  \/ ConnectSession
  \/ \E i \in Socks : onopen(i)
  \/ \E i \in Socks : onerror(i)
  \/ \E i \in Socks : onclose(i)
  \/ \E i \in Socks, msg \in HelloMsgs : HELLO(i, msg)
  \/ \E i \in Socks, msg \in {m \in LobbyStateMsgs : m.status = "LOBBY"} :
       LOBBY_STATE(i, msg)
  \/ createLobby("alice")

SpecConnection == Init /\ [][NextConnection]_vars

\* the portfolio and leaderboard views: a connection and the snapshots
NextViews ==
  \/ Connect
  \/ \E i \in Socks : onopen(i)
  \/ Snapshot

SpecViews == Init /\ [][NextViews]_vars

\* the chart buffers: a connection, the game start, ticks past the capacity
NextChart ==
  \/ Connect
  \/ \E i \in Socks : onopen(i)
  \/ \E i \in Socks : GAME_STARTED(i)
  \/ ChartTick

SpecChart == Init /\ [][NextChart]_vars

\* a TICK frame arrives, any frame after any other; MaxFlashTicks frames are explored
FlashTick ==
  \E i \in Socks, msg \in TickMsgs :
    /\ marketRows # <<>>
    /\ nTicks < MaxFlashTicks
    /\ TICK(i, msg)

\* the flashes: a connection, the game start, ticks in any order
NextFlash ==
  \/ Connect
  \/ \E i \in Socks : onopen(i)
  \/ \E i \in Socks : GAME_STARTED(i)
  \/ FlashTick

SpecFlash == Init /\ [][NextFlash]_vars

\* the chart's line colour: a connection, the game start, ticks in any
\* order, the asset selector
NextTrend ==
  \/ Connect
  \/ \E i \in Socks : onopen(i)
  \/ \E i \in Socks : GAME_STARTED(i)
  \/ FlashTick
  \/ \E a \in Assets : updateChartAsset(a)

SpecTrend == Init /\ [][NextTrend]_vars

\* a TICK frame arrives: the two price maps in turn, so that every asset
\* rises and falls; MaxDispatchTicks frames are explored
DispatchTick ==
  \E i \in Socks :
    /\ marketRows # <<>>
    /\ nTicks < MaxDispatchTicks
    /\ TICK(i, IF nTicks % 2 = 0
                 THEN tickMsg(TRUE, ("OIL" :> 1) @@ ("GOLD" :> 2), "60")
                 ELSE tickMsg(TRUE, ("OIL" :> 2) @@ ("GOLD" :> 1), "60"))

\* one frame of every kind the server sends, in the order of a game: the
\* identity, the lobby, the start, then ticks, snapshots (each shown once)
\* and order replies, and the end
Inbound ==
  \/ \E i \in Socks : userId = Null /\ HELLO(i, [type |-> "HELLO", userId |-> "U1"])
  \/ \E i \in Socks :
       userId # Null /\ lobbyId = Null /\ INVITE_CODE(i, [type |-> "INVITE_CODE", lobbyId |-> "L1"])
  \/ \E i \in Socks, msg \in {m \in LobbyStateMsgs : m.status = "LOBBY" /\ m.hostId = "U1"} :
       userId # Null /\ marketRows = <<>> /\ LOBBY_STATE(i, msg)
  \/ \E i \in Socks : lobbyStatus = "LOBBY" /\ GAME_STARTED(i)
  \/ \E i \in Socks : lobbyStatus = "RUNNING" /\ GAME_ENDED(i)
  \/ DispatchTick
  \/ \E i \in Socks : marketRows # <<>> /\ kpis = <<>> /\ PORTFOLIO(i, LastPortfolio)
  \/ \E i \in Socks : marketRows # <<>> /\ lbRows = <<>> /\ LEADERBOARD(i, LastLeaderboard)
  \/ marketRows # <<>> /\ Acknowledgment
  \/ \E i \in Socks : UNKNOWN(i)

\* one use of every operation the page offers
Local ==
  \/ Connect
  \/ createLobby("alice")
  \/ joinLobby("alice", "l1")
  \/ setReady(TRUE)
  \/ startGame
  \/ orderClick("OIL", "BUY", <<10>>)
  \/ \E a \in Assets : updateChartAsset(a)

\* every kind of frame and every local operation, on one connection
NextDispatch ==
  \/ \E i \in Socks : onopen(i)
  \/ Inbound
  \/ Local

SpecDispatch == Init /\ [][NextDispatch]_vars

\* a click on Start; MaxStarts clicks are explored
StartClick == pendingInit + Len(timers) < MaxStarts /\ btnStartClick

\* the ticker's timers: the host of a lobby clicks Start, the timeouts and
\* intervals fire, the ticker is stopped
NextTicker ==
  \/ Connect
  \/ \E i \in Socks : onopen(i)
  \/ \E i \in Socks : userId = Null /\ HELLO(i, [type |-> "HELLO", userId |-> "U1"])
  \/ \E i \in Socks, msg \in {m \in LobbyStateMsgs : m.status = "LOBBY" /\ m.hostId = "U1"} :
       userId # Null /\ lobbyStatus = "" /\ LOBBY_STATE(i, msg)
  \/ StartClick
  \/ initTickerTimeout
  \/ \E id \in 1..Len(timers) : rotate(id)
  \/ stopTicker

SpecTicker == Init /\ [][NextTicker]_vars

\* a game event is put on the ticker; MaxAlerts events are explored
Alert == nAlerts < MaxAlerts /\ addTickerHeadline(<<"event", nAlerts + 1>>)

\* the headline list: the ticker is started, rotates, and receives events
NextHeadlines ==
  \/ StartClick
  \/ initTickerTimeout
  \/ \E id \in 1..Len(timers) : rotate(id)
  \/ Alert

SpecHeadlines == Init /\ [][NextHeadlines]_vars

\* a log() call; the first MaxLogChoices calls carry either text, the later
\* ones the first; MaxLogCalls calls are explored
LogCall ==
  \E text \in {"a", "b"} :
    /\ nLogCalls < MaxLogCalls
    /\ nLogCalls >= MaxLogChoices => text = "a"
    /\ logCall(<<text, nLogCalls + 1>>)

\* the log past its capacity
NextLog == LogCall

SpecLog == Init /\ [][NextLog]_vars

(***************************************************************************)
(* Properties                                                              *)
(***************************************************************************)
Screens == {"setupScreen", "lobbyCard", "gameArea"}
VisibleScreens == {e \in Screens : ~hidden[e]}
OnlyTrading == [setupScreen |-> TRUE, lobbyCard |-> TRUE, gameArea |-> FALSE]

\* the current connection is Open
ConnectionOpen == ws # 0 /\ socks[ws].readyState = "OPEN"

\* C1: at most one of the setup, lobby and trading screens is visible in
\* every reachable state.
C1_AtMostOneScreen == Cardinality(VisibleScreens) <= 1

\* C2: a LOBBY_STATE handled while the trading screen is visible leaves the
\* visibility of every screen as it was.
C2_LobbyStateKeepsTrading ==
  [][\A i \in Socks, msg \in LobbyStateMsgs :
       (~hidden.gameArea /\ LOBBY_STATE(i, msg)) => hidden' = hidden]_vars

\* C3: right after a GAME_STARTED is handled, whatever the screens were, the
\* trading screen is visible and the setup and lobby screens are hidden.
C3_GameStartedShowsTrading ==
  [][\A i \in Socks : GAME_STARTED(i) => hidden' = OnlyTrading]_vars

\* C3 witness: the game started out of the lobby screen, which is now hidden.
C3_Witness == hidden = OnlyTrading /\ lobbyIdTxt # "" /\ lobbyStatus = "RUNNING"

\* C4: no step shows the setup screen again once it is hidden, and no step
\* hides the trading screen once it is visible.
C4_ForwardOnly ==
  [][/\ hidden.setupScreen => hidden'.setupScreen
     /\ ~hidden.gameArea => ~hidden'.gameArea]_vars

\* C4 witness: with the setup screen hidden and the trading screen visible, a
\* later LOBBY_STATE was handled and a local operation sent a frame.
C4_Witness ==
  /\ hidden.setupScreen /\ ~hidden.gameArea
  /\ lobbyStatus = "LOBBY"
  /\ out # <<>>

\* C5: right after a LOBBY_STATE{hostId, status} is handled, isHost is
\* (userId = hostId), the start button is enabled exactly when isHost and
\* status is LOBBY, and it is disabled for a userId other than hostId.
C5_HostRecomputed ==
  [][\A i \in Socks, msg \in LobbyStateMsgs :
       LOBBY_STATE(i, msg) =>
         /\ isHost' = (userId = msg.hostId)
         /\ ~btnStartDisabled' <=> (userId = msg.hostId /\ msg.status = "LOBBY")
         /\ userId # msg.hostId => btnStartDisabled']_vars

\* C5 witness: the host of a running lobby, start disabled.
C5_Witness ==
  /\ isHost /\ userId = hostIdTxt /\ lobbyStatus = "RUNNING" /\ btnStartDisabled
  /\ hidden.gameArea

\* C6: in every reachable state, isHost implies that userId is the hostId of
\* the latest LOBBY_STATE.
C6_HostImpliesIdentity == isHost => userId = hostIdTxt

\* the last n elements of a sequence, all of it when shorter
LastN(seq, n) == IF Len(seq) <= n THEN seq ELSE SubSeq(seq, Len(seq) - n + 1, Len(seq))

\* C7: every asset's sparkline history holds at most 20 points and is, in
\* arrival order, the most recent min(n, 20) of the n prices received for it.
C7_SparklineIsLast20 ==
  \A a \in Assets :
    /\ Len(priceHistory[a]) <= 20
    /\ priceHistory[a] = LastN(received[a], 20)

\* C7 witness: more than 20 prices arrived for an asset, not all the same.
C7_Witness ==
  \E a \in Assets :
    /\ Len(received[a]) > 20
    /\ received[a][1] # received[a][Len(received[a])]
    /\ priceHistory[a][1] # priceHistory[a][20]

\* C8: on a tick that holds a price for an asset, the change and percent
\* cells are unset when no earlier price is stored for the asset, and set
\* otherwise, with change = price - previous price and the trend class up
\* when the change is > 0, down when < 0, neither when = 0.
C8_DeltaAndTrend ==
  [][\A i \in Socks, msg \in TickMsgs :
       (TICK(i, msg) /\ msg.hasPrices) =>
         \A a \in DOMAIN msg.prices :
           LET row == marketRows'[a]
               price == msg.prices[a]
           IN IF a \notin DOMAIN previousPrices
                THEN row.chg = <<>> /\ row.chgp = <<>>
                ELSE LET delta == price - previousPrices[a]
                     IN /\ row.chg = <<delta>>
                        /\ row.chgp # <<>>
                        /\ (delta > 0) <=> (row.chgCls = "price-change up")
                        /\ (delta < 0) <=> (row.chgCls = "price-change down")
                        /\ (delta = 0) <=> (row.chgCls = "price-change")]_vars

\* C8 witness: on a later tick one asset rose and the other fell.
C8_Witness ==
  /\ marketRows # <<>>
  /\ \E a \in Assets : marketRows[a].chg # <<>> /\ marketRows[a].chg[1] < 0
                       /\ marketRows[a].chgCls = "price-change down"
  /\ \E a \in Assets : marketRows[a].chg # <<>> /\ marketRows[a].chg[1] > 0
                       /\ marketRows[a].chgCls = "price-change up"

\* C9: an order click whose quantity is 0 or negative hands no frame to
\* send(); one whose quantity is a positive integer, with the connection
\* Open, hands exactly one ORDER frame with the asset, side and quantity
\* of the click.
C9_OrderFrames ==
  [][\A a \in Assets, side \in Sides, text \in QtyInputs :
       orderClick(a, side, text) =>
         IF parseQty(text) <= 0
           THEN out' = <<>>
           ELSE ConnectionOpen =>
                  out' = <<[sock |-> ws,
                            frame |-> [type |-> "ORDER", asset |-> a, side |-> side,
                                       qty |-> text[1]]]>>]_vars

\* C9 witness: a SELL of 10 GOLD went out on the open connection.
C9_Witness ==
  /\ ConnectionOpen
  /\ out = <<[sock |-> ws,
              frame |-> [type |-> "ORDER", asset |-> "GOLD", side |-> "SELL", qty |-> 10]]>>

NotConnectedLogs ==
  {<<"Not connected.">>, <<"Not connected (cannot create lobby).">>,
   <<"Not connected (cannot join lobby).">>, <<"Not connected (cannot set ready).">>,
   <<"Not connected (cannot start game).">>}

\* C10: while the connection is not Open, each of createLobby, joinLobby,
\* setReady, startGame and an order click sends no frame, adds one entry to
\* the log and leaves userId, lobbyId, isHost and the screens as they were.
C10_NotConnectedNoSend ==
  [][(~ConnectionOpen /\ Outbound) =>
       /\ out' = <<>>
       /\ Len(log') = Len(log) + 1
       /\ log'[1] \in NotConnectedLogs
       /\ SubSeq(log', 2, Len(log')) = log
       /\ UNCHANGED <<userId, lobbyId, isHost, hidden>>]_vars

\* C10 witness: the host's connection closed during the game and an
\* operation was refused.
C10_Witness ==
  /\ ws # 0 /\ socks[ws].readyState = "CLOSED"
  /\ isHost /\ userId # Null /\ lobbyId # Null /\ ~hidden.gameArea
  /\ log # <<>> /\ log[1] \in NotConnectedLogs

\* the connections whose handlers can still run: Connecting or Open
LiveSockets == {i \in Socks : socks[i].readyState \in {"CONNECTING", "OPEN"}}

\* C11: connectWS called while the connection is Open creates no socket,
\* keeps the current socket and its handlers, and changes no session, screen,
\* lobby, market or chart state and no log entry.
C11_ConnectIdempotent ==
  [][(ConnectionOpen /\ connectWS) =>
       UNCHANGED <<socks, ws, wsStatus, log, sessionVars, screenVars, lobbyVars,
                   marketVars, chartVars>>]_vars

\* C11 witness: the host of a lobby clicked Connect on the open connection.
C11_Witness ==
  /\ idle = "connectWS" /\ ConnectionOpen
  /\ isHost /\ userId # Null /\ lobbyId # Null

\* C12: in every reachable state at most one connection is Connecting or Open.
C12_OneLiveConnection == Cardinality(LiveSockets) <= 1

\* C13: the number of sockets changes only in a connectWS step, and the
\* connection callbacks (open, error, close) keep the current socket and
\* hand no frame to send().
C13_NoAutoReconnect ==
  [][/\ Len(socks') # Len(socks) => connectWS
     /\ \A i \in Socks :
          (onopen(i) \/ onerror(i) \/ onclose(i)) => (ws' = ws /\ out' = <<>>)]_vars

\* C13 witness: the first connection closed, Connect was clicked again and a
\* frame went out on the second connection.
C13_Witness ==
  /\ Len(socks) = 2 /\ socks[1].readyState = "CLOSED"
  /\ ws = 2 /\ socks[2].readyState = "OPEN"
  /\ out # <<>> /\ out[1].sock = 2

C15_UnknownIgnored ==
  [][\A i \in Socks :
       UNKNOWN(i) =>
         /\ UNCHANGED <<connVars, log, sessionVars, screenVars, lobbyVars, timeLeft,
                        orderRows, marketRows, previousPrices, priceHistory, chartVars,
                        kpis, posRows, tradeRows, lbRows>>
         /\ out' = <<>>]_vars

\* C15 witness: an unrecognised frame was handled during the game of a
\* player with an identity and a lobby.
C15_Witness ==
  /\ idle = "UNKNOWN"
  /\ userId # Null /\ lobbyId # Null /\ ~hidden.gameArea /\ log # <<>>

\* the smaller of two numbers
Min(a, b) == IF a < b THEN a ELSE b

C19_LeaderboardOrder ==
  [][\A i \in Socks, msg \in LeaderboardMsgs :
       LEADERBOARD(i, msg) =>
         LET rows == IF msg.hasRows THEN msg.rows ELSE <<>>
         IN /\ Len(lbRows') = Len(rows)
            /\ \A k \in 1..Len(rows) :
                 /\ lbRows'[k].name = rows[k].name
                 /\ lbRows'[k].equity = toFixed(rows[k].equity)
                 /\ lbRows'[k].rank[2] = k
                 /\ (lbRows'[k].rank[1] # "") <=> (k <= 3)
                 /\ lbRows'[k].highlight <=> (k <= 3)
                 /\ (rows[k].realizedPnL > 0) <=> (lbRows'[k].pnlClass = "pnl-positive")
                 /\ (rows[k].realizedPnL < 0) <=> (lbRows'[k].pnlClass = "pnl-negative")
                 /\ (rows[k].realizedPnL = 0) <=> (lbRows'[k].pnlClass = "pnl-neutral")]_vars

\* C19 witness: four rows that are not in order of equity are shown as
\* given; the fourth has no marker; one realized P&L is negative.
C19_Witness ==
  /\ Len(lbRows) = 4
  /\ lbRows[1].equity.digits < lbRows[2].equity.digits
  /\ lbRows[3].equity.digits < lbRows[4].equity.digits
  /\ lbRows[3].highlight /\ ~lbRows[4].highlight /\ lbRows[4].rank = <<"", 4>>
  /\ \E k \in 1..4 : lbRows[k].pnlClass = "pnl-negative"

EmptyView == [kpis |-> <<>>, posRows |-> <<>>, tradeRows |-> <<>>]

\* C20: the cells and rows left by a PORTFOLIO or LEADERBOARD step are
\* those the same snapshot leaves on an empty page, whatever was rendered
\* before, and handling the same snapshot again leaves them as they are.
C20_ViewsStateless ==
  [][/\ \A i \in Socks, msg \in PortfolioMsgs :
          PORTFOLIO(i, msg) =>
            LET after == [kpis |-> kpis', posRows |-> posRows', tradeRows |-> tradeRows']
            IN /\ after = renderPortfolio(EmptyView, msg)
               /\ renderPortfolio(after, msg) = after
     /\ \A i \in Socks, msg \in LeaderboardMsgs :
          LEADERBOARD(i, msg) =>
            /\ lbRows' = renderLeaderboard(<<>>, msg)
            /\ renderLeaderboard(lbRows', msg) = lbRows']_vars

\* C20 witness: a snapshot with one trade and no position was handled after
\* one with seven trades and two positions; the tables show the later one only.
C20_Witness ==
  /\ Len(shown) = 2
  /\ shown[1].type = "PORTFOLIO" /\ Len(shown[1].trades) = 7 /\ Len(shown[1].positions) = 2
  /\ shown[2].type = "PORTFOLIO" /\ Len(shown[2].trades) = 1 /\ Len(shown[2].positions) = 0
  /\ Len(tradeRows) = 1 /\ posRows = <<>>

\* C16: after every TICK the label sequence and every asset's chart series
\* have the same length, at most 300; a TICK with a price map appends one
\* label and, to every asset's series, the asset's price or the gap
\* placeholder when the map does not hold the asset, and drops the oldest
\* entry of each when that makes more than 300; a TICK without a price map
\* leaves both untouched.
C16_ChartLockstep ==
  [][\A i \in Socks, msg \in TickMsgs :
       TICK(i, msg) =>
         /\ Len(LABELS') <= 300
         /\ \A a \in Assets : Len(HISTORY'[a]) = Len(LABELS')
         /\ IF msg.hasPrices
              THEN /\ LABELS' = LastN(Append(LABELS, <<"ts", nTicks>>), 300)
                   /\ \A a \in Assets :
                        HISTORY'[a] =
                          LastN(Append(HISTORY[a],
                                       IF a \in DOMAIN msg.prices
                                         THEN <<msg.prices[a]>> ELSE <<>>), 300)
              ELSE UNCHANGED <<LABELS, HISTORY>>]_vars

\* C16 witness: more than 300 ticks with a price map were handled; the
\* buffers hold 300 entries, the oldest label is gone, and one series holds
\* a gap beside prices of another.
C16_Witness ==
  /\ Len(LABELS) = 300 /\ LABELS[1] # <<"ts", 0>> /\ LABELS[300] = <<"ts", 300>>
  /\ \A a \in Assets : Len(HISTORY[a]) = 300
  /\ \E a, b \in Assets : HISTORY[a][300] = <<>> /\ HISTORY[b][300] # <<>>

\* C17: a TICK leaves untouched every asset its price map does not hold
\* (stored previous price, order and market row with change, trend class
\* and flash, sparkline history), and gives every asset the map holds the
\* new price in its rows, its stored price and its sparkline.
C17_AbsentUntouched ==
  [][\A i \in Socks, msg \in TickMsgs :
       TICK(i, msg) =>
         \A a \in Assets :
           IF msg.hasPrices /\ a \in DOMAIN msg.prices
             THEN /\ a \in DOMAIN previousPrices' /\ previousPrices'[a] = msg.prices[a]
                  /\ marketRows'[a].mp = <<msg.prices[a]>>
                  /\ orderRows'[a].p = <<msg.prices[a]>>
                  /\ priceHistory'[a][Len(priceHistory'[a])] = msg.prices[a]
             ELSE /\ (a \in DOMAIN previousPrices') <=> (a \in DOMAIN previousPrices)
                  /\ a \in DOMAIN previousPrices => previousPrices'[a] = previousPrices[a]
                  /\ marketRows'[a] = marketRows[a]
                  /\ orderRows'[a] = orderRows[a]
                  /\ priceHistory'[a] = priceHistory[a]]_vars

\* C17 witness: after ticks that held both assets, the latest tick held OIL
\* only; GOLD keeps its price, change and sparkline while OIL moved on.
C17_Witness ==
  /\ lastTick # <<>> /\ lastTick[1].hasPrices /\ DOMAIN lastTick[1].prices = {"OIL"}
  /\ marketRows # <<>> /\ marketRows["GOLD"].mp # <<>> /\ marketRows["GOLD"].chg # <<>>
  /\ "GOLD" \in DOMAIN previousPrices
  /\ Len(priceHistory["GOLD"]) >= 2
  /\ Len(priceHistory["OIL"]) > Len(priceHistory["GOLD"])


(***************************************************************************)
(* P&L colouring                                                           *)
(***************************************************************************)
\* the sign a CSS class colours a cell as
classSign(cls) ==
  IF cls \in {"pnl-positive", "positive"} THEN 1
  ELSE IF cls \in {"pnl-negative", "negative"} THEN -1
  ELSE 0

\* the sign of the value a cell displays
cellSign(cell) ==
  IF cell.text.digits > 0 THEN 1 ELSE IF cell.text.digits < 0 THEN -1 ELSE 0

\* C21: every P&L cell of the portfolio view (unrealized, realized, top-bar
\* total, per-position unrealized and percent, per-trade realized) is coloured
\* by the sign of the value it displays: positive above zero, negative below
\* zero, neutral at zero.
C21_PnlClassBySign ==
  kpis # <<>> =>
    /\ classSign(kpis.upnlClass) = cellSign(kpis.upnl)
    /\ classSign(kpis.rpnlClass) = cellSign(kpis.rpnl)
    /\ classSign(kpis.pnlTopClass) = cellSign(kpis.pnlTop)
    /\ \A k \in 1..Len(posRows) :
         /\ classSign(posRows[k].pnlClass) = cellSign(posRows[k].uPnL)
         /\ classSign(posRows[k].pnlClass) = cellSign(posRows[k].pct)
    /\ \A k \in 1..Len(tradeRows) :
         classSign(tradeRows[k].pnlClass) = cellSign(tradeRows[k].pnl)


(***************************************************************************)
(* End of game, start button                                               *)
(***************************************************************************)
\* GAME_ENDED has been handled: its line is in the activity log
gameEndedLogged == \E k \in 1..Len(log) : log[k] = <<"Game ended.">>

\* C22: GameEnded sets the lobby status to ENDED and leaves the visible
\* screen as it is; once it has, no later inbound message moves the lobby
\* status away from ENDED or changes the visible screen.
C22_EndedTerminal ==
  [][ /\ (\E i \in Socks : GAME_ENDED(i)) =>
           (lobbyStatus' = "ENDED" /\ hidden' = hidden)
      /\ (gameEndedLogged /\ lobbyStatus = "ENDED" /\ Lifecycle) =>
           (lobbyStatus' = "ENDED" /\ hidden' = hidden) ]_vars

\* C25: the start button is enabled only while the local player is the host
\* and the lobby status is LOBBY; it is not enabled once GameStarted has set
\* RUNNING or GameEnded has set ENDED.
C25_StartOnlyInLobby == ~btnStartDisabled => (isHost /\ lobbyStatus = "LOBBY")


(***************************************************************************)
(* Frame effects                                                           *)
(***************************************************************************)
\* C23: handling an inbound frame never sends a frame; an ORDER_REJECT puts
\* its reason in the activity log and the rejected order is not sent again.
C23_InboundSendsNothing ==
  [][ /\ out' = <<>> \/ ~onmessage
      /\ \A i \in Socks, msg \in OrderRejectMsgs :
           ORDER_REJECT(i, msg) =>
             (log'[1] = <<"ORDER REJECTED", msg.reason>> /\ out' = <<>>) ]_vars

\* an order was rejected on an open connection: the reason is logged, nothing is sent
C23_Witness ==
  /\ ConnectionOpen
  /\ Len(log) > 0 /\ log[1] = <<"ORDER REJECTED", "Insufficient cash">>
  /\ out = <<>>

\* C28: the sparkline histories, the previous prices and the chart series
\* (HISTORY, LABELS) change only in a step that handles a TICK frame: no other
\* frame, no local operation (switching the chart asset included) and no
\* rendering of a portfolio or leaderboard changes them.
C28_OnlyTickWritesSeries ==
  [][ (<<priceHistory, previousPrices, HISTORY, LABELS>>' #
         <<priceHistory, previousPrices, HISTORY, LABELS>>)
        => \E i \in Socks, msg \in TickMsgs : TICK(i, msg) ]_vars

\* the series are filled, the chart was switched to GOLD, both views were
\* rendered and the game has ended
C28_Witness ==
  /\ HISTORY["GOLD"] = <<<<2>>, <<1>>>> /\ priceHistory["GOLD"] = <<2, 1>>
  /\ previousPrices["GOLD"] = 1 /\ Len(LABELS) = 2
  /\ chart # <<>> /\ chart.data = "GOLD" /\ chartAsset = "GOLD"
  /\ kpis # <<>> /\ lbRows # <<>>
  /\ lobbyStatus = "ENDED"

\* C29: no local operation (connect, createLobby, joinLobby, setReady,
\* startGame, an order click, a chart asset selection) changes which screen is
\* visible; an order click changes neither the portfolio view nor the market
\* state.
C29_LocalKeepsScreen ==
  [][ /\ Operations => hidden' = hidden
      /\ Order => UNCHANGED <<kpis, posRows, tradeRows, lbRows, marketRows, orderRows,
                              previousPrices, priceHistory, timeLeft, HISTORY, LABELS,
                              chart>> ]_vars

\* an order was sent from the trading screen with a portfolio on display
C29_Witness ==
  /\ Len(out) = 1 /\ out[1].frame.type = "ORDER"
  /\ kpis # <<>> /\ Len(posRows) > 0
  /\ hidden = OnlyTrading

\* C30: HELLO stores the assigned userId and INVITE_CODE stores the lobbyId;
\* neither changes the visible screen or the host flag.
C30_IdentityFramesKeepScreen ==
  [][ /\ \A i \in Socks, msg \in HelloMsgs :
           HELLO(i, msg) => (userId' = msg.userId /\ hidden' = hidden /\ isHost' = isHost)
      /\ \A i \in Socks, msg \in InviteCodeMsgs :
           INVITE_CODE(i, msg) =>
             (lobbyId' = msg.lobbyId /\ hidden' = hidden /\ isHost' = isHost) ]_vars

\* a host received a second identity and an invite code: the host flag and
\* the lobby card are as LOBBY_STATE left them
C30_Witness ==
  /\ userId = "U2" /\ hostIdTxt = "U1" /\ isHost
  /\ lobbyId = "L1" /\ inviteBox = <<"Invite code: ", "L1">>
  /\ ~hidden.lobbyCard


(***************************************************************************)
(* Joining and starting                                                    *)
(***************************************************************************)
\* C24: joinLobby with an empty code sends nothing, even on an open
\* connection; with a code, on an open connection, it sends exactly one
\* JOIN_LOBBY frame whose lobbyId is the code in upper case.
C24_JoinNeedsCode ==
  [][ \A name \in Names, code \in CodeInputs :
        joinLobby(name, code) =>
          IF code = ""
            THEN out' = <<>>
            ELSE ConnectionOpen =>
                   out' = <<[sock |-> ws,
                             frame |-> [type |-> "JOIN_LOBBY", lobbyId |-> "L1",
                                        name |-> name]]>> ]_vars

\* Join was clicked with an empty code on an open connection: the alert, no frame
C24_Witness ==
  /\ ConnectionOpen
  /\ alertMsg = "Enter a lobby code."
  /\ out = <<>>

\* C26: a START_GAME frame is sent only on an open connection by the host;
\* startGame called by a player who is not the host sends nothing and logs
\* that only the host can start.
C26_StartOnlyByHost ==
  [][ /\ (\E k \in 1..Len(out') : out'[k].frame.type = "START_GAME")
           => (ConnectionOpen /\ isHost)
      /\ (startGame /\ ConnectionOpen /\ ~isHost)
           => (out' = <<>> /\ log'[1] = <<"Only the host can start the game.">>) ]_vars

\* a player in another host's lobby clicked Start: the log line, no frame
C26_Witness ==
  /\ ConnectionOpen
  /\ userId # Null /\ hostIdTxt # "" /\ hostIdTxt # userId /\ ~isHost
  /\ Len(log) > 0 /\ log[1] = <<"Only the host can start the game.">>
  /\ out = <<>>


(***************************************************************************)
(* Flash                                                                   *)
(***************************************************************************)
\* C27: a tick leaves the up-flash on the row of an asset whose price rose
\* against the previous one, the down-flash where it fell, and no flash on the
\* asset's first price or an unchanged price, whatever flash the row carried
\* before; the row of an asset the tick does not hold is left alone; no row
\* ever carries both flash classes.
C27_FlashFollowsTrend ==
  [][ \A i \in Socks, msg \in TickMsgs :
        (marketRows # <<>> /\ TICK(i, msg)) =>
          \A a \in Assets :
            /\ IF msg.hasPrices /\ a \in DOMAIN msg.prices
                 THEN marketRows'[a].flash =
                        IF a \notin DOMAIN previousPrices THEN {}
                        ELSE IF msg.prices[a] > previousPrices[a] THEN {"flash-green"}
                        ELSE IF msg.prices[a] < previousPrices[a] THEN {"flash-red"}
                        ELSE {}
                 ELSE marketRows'[a].flash = marketRows[a].flash
            /\ ~({"flash-green", "flash-red"} \subseteq marketRows'[a].flash) ]_vars

\* OIL rose and then fell: the down-flash has replaced the up-flash
C27_Witness ==
  /\ marketRows # <<>>
  /\ received["OIL"] = <<1, 2, 1>>
  /\ marketRows["OIL"].flash = {"flash-red"}


logAfter(entry) == SubSeq(<<entry>> \o log, 1, Min(Len(log) + 1, 50))

\* C32: every ORDER_ACCEPTED and every ORDER_REJECT frame adds exactly one
\* entry to the log, above all earlier entries, whether or not an order was
\* sent before; it changes no session, market or portfolio state.
C32_ReplyLoggedOnce ==
  [][ /\ \A i \in Socks, msg \in OrderAcceptedMsgs :
           ORDER_ACCEPTED(i, msg) =>
             /\ log' = logAfter(<<"ORDER ACCEPTED", msg.side, msg.asset, msg.qty, msg.price>>)
             /\ UNCHANGED <<sessionVars, screenVars, lobbyVars, marketVars, chartVars,
                            viewVars>>
      /\ \A i \in Socks, msg \in OrderRejectMsgs :
           ORDER_REJECT(i, msg) =>
             /\ log' = logAfter(<<"ORDER REJECTED", msg.reason>>)
             /\ UNCHANGED <<sessionVars, screenVars, lobbyVars, marketVars, chartVars,
                            viewVars>> ]_vars

\* an order was accepted although the order rows were never built, so that
\* no order can have been sent: the entry is above the connection's entry
C32_Witness ==
  /\ orderRows = <<>>
  /\ Len(log) = 2
  /\ log[1] = <<"ORDER ACCEPTED", "BUY", "OIL", 10, 1>>
  /\ log[2] = <<"WebSocket connected">>


(***************************************************************************)
(* Connection status                                                       *)
(***************************************************************************)
\* C33: the status badge reads 'connected' exactly when the current
\* connection is Open, in every reachable state, also when the events of an
\* earlier socket arrive after connectWS created a newer one.
C33_StatusMatchesConnection == (wsStatus = "connected") <=> ConnectionOpen


(***************************************************************************)
(* Sparkline, previous price and chart series                              *)
(***************************************************************************)
\* C34: for every asset, the sparkline history is empty exactly when no
\* previous price is stored; otherwise its last element is the stored
\* previous price, which is the last price received for the asset.
C34_HistoryEndsAtPrevious ==
  \A a \in Assets :
    /\ (priceHistory[a] = <<>>) <=> (a \notin DOMAIN previousPrices)
    /\ priceHistory[a] # <<>> =>
         /\ priceHistory[a][Len(priceHistory[a])] = previousPrices[a]
         /\ previousPrices[a] = received[a][Len(received[a])]

\* OIL's sparkline is full and has evicted, GOLD was never priced
C34_Witness ==
  /\ Len(received["OIL"]) > 20 /\ Len(priceHistory["OIL"]) = 20
  /\ previousPrices["OIL"] = 2
  /\ received["GOLD"] = <<>> /\ priceHistory["GOLD"] = <<>>
  /\ "GOLD" \notin DOMAIN previousPrices


\* the prices of a chart series, without its gaps
nonGaps(series) ==
  LET held == SelectSeq(series, LAMBDA pt : pt # <<>>)
  IN [k \in 1..Len(held) |-> held[k][1]]

\* C35: the sparkline and the chart show one history per asset: each asset's
\* sparkline history is the last min(k, 20) prices of its chart series (gaps
\* left out), where k is the number of prices received for the asset.
C35_SparklineIsChartTail ==
  \A a \in Assets :
    LET prices == nonGaps(HISTORY[a])
        n == Min(Len(received[a]), 20)
    IN /\ Len(prices) >= n
       /\ priceHistory[a] = LastN(prices, n)


(***************************************************************************)
(* Ticker                                                                  *)
(***************************************************************************)
\* C36: once stopTicker() has returned, no interval that rotates the
\* headlines is live, whatever initTicker() calls came before, the repeated
\* ones scheduled by several clicks on Start included.
C36_StopStopsRotation ==
  stopped => \A id \in 1..Len(timers) : timers[id] # "live"

\* C38: the headline list never holds more than 30 entries and the rotation
\* index stays within the list; every rotation shows the 5 headlines that
\* follow the index cyclically and moves the index on by one, modulo the
\* length of the list.
C38_TickerRotation ==
  [][ /\ Len(NEWS_HEADLINES') <= 30
      /\ currentIndex' \in 0..(Len(NEWS_HEADLINES') - 1)
      /\ \A id \in 1..Len(timers) :
           rotate(id) =>
             /\ Len(tickerText') = 5
             /\ \A i \in 0..4 :
                  tickerText'[i + 1] =
                    NEWS_HEADLINES[((currentIndex + i) % Len(NEWS_HEADLINES)) + 1]
             /\ currentIndex' = (currentIndex + 1) % Len(NEWS_HEADLINES) ]_vars

\* the list is full and has dropped an old headline; the last rotation
\* wrapped around the end of the list
C38_Witness ==
  /\ nAlerts = 11 /\ Len(NEWS_HEADLINES) = 30
  /\ NEWS_HEADLINES[30] = <<"news", 19>>
  /\ currentIndex = 29
  /\ tickerText = <<NEWS_HEADLINES[29], NEWS_HEADLINES[30], NEWS_HEADLINES[1],
                    NEWS_HEADLINES[2], NEWS_HEADLINES[3]>>

(***************************************************************************)
(* Log capacity                                                            *)
(***************************************************************************)
\* C37: the log never holds more than 50 entries; they are the latest calls,
\* newest first: when a call finds 50 entries, the oldest one is removed.
C37_LogKeepsNewest50 ==
  /\ Len(log) <= 50
  /\ Len(log) = Min(nLogCalls, 50)
  /\ \A k \in 1..Len(log) : log[k][2] = nLogCalls - k + 1

\* more calls than the capacity: the first two entries are gone
C37_Witness ==
  /\ nLogCalls = 52 /\ Len(log) = 50
  /\ log[1] = <<"a", 52>> /\ log[50][2] = 3

====
